---- MODULE Spec2Model ----
(***************************************************************************)
(* A model of the streaming pager engine of pypager: the source registry   *)
(* (add / remove / focus), the prefetch scheduler that runs after every    *)
(* render, its worker threads and the callbacks they queue on the event    *)
(* loop.                                                                   *)
(*                                                                         *)
(* The main loop is one logical thread: every main-loop handler is one     *)
(* atomic action.  A worker thread is interleaved with the main loop and   *)
(* with other workers between its statements, so each statement of         *)
(* receive_content_from_generator is a separate action.                    *)
(***************************************************************************)
EXTENDS Integers, Sequences, FiniteSets, TLC

\* ------------------------------------------------------------------ bounds
\* Number of Source objects ever created by the registry runs.
MaxSources == 7
\* Number of chunks a generator yields before it is exhausted.
MaxChunks == 3
\* Number of worker threads alive at the same time.
MaxThreads == 2
\* Largest window height the renderer reports.
MaxWindowHeight == 1
\* Number of sources and of chunks per source in the runs about marks.
MaxMarkSources == 1
MaxMarkChunks == 1
\* Merging with marks and wrapping: chunks per source.
MaxMergeChunks == 2
\* Search highlighting: sources of the session.
MaxHighlightSources == 4
\* Digit keys: digits of a repeat count, sources of the session.
MaxArgLen == 2
MaxArgSources == 3
\* Switching between streaming sources: sources, chunks per source.
MaxSwitchSources == 2
MaxSwitchChunks == 1
\* Source classes on their own: text length, fragments per formatted text,
\* chunks per generator, read_chunk calls per source object.
MaxTextLen == 2
MaxFragments == 2
MaxGenerated == 2
MaxReads == 4

\* ------------------------------------------------------------ value domains
NL == "\n"

\* A token is a (style, one-character text) pair, as produced by
\* explode_text_fragments.
Tok(c) == <<"", c>>

\* The chunks a generator may yield.
ChunkSet == { <<Tok("a")>>, <<Tok("b"), Tok(NL)>> }

Ids == 1..MaxSources

\* Identity of the DummySource instance, which is never in `sources`.
DummySource == 0

VARIABLES
    sources,                  \* Pager.sources: list of source identities
    current_source_index,     \* Pager.current_source_index (0-based)
    message,                  \* Pager._message
    in_colon_mode,            \* Pager._in_colon_mode
    forward_forever,          \* forward_forever ('tail -f')
    raised,                   \* exception that escaped the last main-loop handler
    created,                  \* number of Source objects created so far
    generator,                \* per source: the chunks its generator has yielded
    eof,                      \* per source: GeneratorSource._eof
    broken,                   \* per source: its generator has raised an error
    text,                     \* per source: SourceInfo.buffer.text
    cursor_position,          \* per source: SourceInfo.buffer.cursor_position
    line_tokens,              \* per source: SourceInfo.line_tokens
    waiting_for_input_stream, \* per source: SourceInfo.waiting_for_input_stream
    threads,                  \* worker threads started by _after_render, by slot
    callbacks,                \* the event loop's queue of call_soon callbacks
    displaying_help,          \* Pager.displaying_help
    help_sources,             \* the sources created by display_help
    app_exited,               \* event.app.exit() has been called
    focus,                    \* the window that has the focus of the layout
    marks,                    \* per source: SourceInfo.marks
    vertical_scroll,          \* per source: SourceInfo.window.vertical_scroll
    src,                      \* a Source object whose read_chunk is called directly
    returned,                 \* what the read_chunk calls on src returned, in order
    arg,                      \* KeyProcessor.arg, the pending repeat count (<<>>: None)
    highlight_search,         \* Pager.highlight_search
    window_highlight_search,  \* per source: highlight_search as its window's processors see it
    wrap_lines                \* per source: SourceInfo.wrap_lines

registry == <<sources, current_source_index, message, in_colon_mode>>
srcstate == <<generator, eof, broken>>
viewstate == <<text, cursor_position, line_tokens, waiting_for_input_stream>>
uirest == <<displaying_help, help_sources, app_exited, marks,
            vertical_scroll>>
uistate == <<uirest, focus>>
unit == <<src, returned>>
options == <<arg, highlight_search, window_highlight_search, wrap_lines>>
vars == <<sources, current_source_index, message, in_colon_mode,
          forward_forever, raised, created, generator, eof, broken,
          text, cursor_position, line_tokens, waiting_for_input_stream, threads,
          callbacks, displaying_help, help_sources, app_exited, focus,
          marks, vertical_scroll, src, returned, arg, highlight_search,
          window_highlight_search, wrap_lines>>

\* ------------------------------------------------------------------ helpers
RECURSIVE Flatten(_)
\* "".join over the characters of a sequence of chunks.
Flatten(chunks) ==
    IF chunks = <<>> THEN <<>>
    ELSE [i \in 1..Len(Head(chunks)) |-> Head(chunks)[i][2]]
             \o Flatten(Tail(chunks))

RECURSIVE CountNewlines(_)
CountNewlines(s) ==
    IF s = <<>> THEN 0
    ELSE (IF Head(s) = NL THEN 1 ELSE 0) + CountNewlines(Tail(s))

\* Document.line_count: the number of lines of the buffer text.
LineCount(s) == CountNewlines(s) + 1

IsPrefix(p, s) == Len(p) <= Len(s) /\ SubSeq(s, 1, Len(p)) = p

Min(a, b) == IF a <= b THEN a ELSE b

\* Document.cursor_position_row: the line of the text the cursor is on.
CursorRow(t, c) == CountNewlines(SubSeq(t, 1, c))

InList(x, l) == \E i \in 1..Len(l) : l[i] = x

\* list.remove(x): delete the first occurrence of x.
ListRemove(l, x) ==
    LET i == CHOOSE j \in 1..Len(l) :
                 l[j] = x /\ \A k \in 1..(j - 1) : l[k] # x
    IN  SubSeq(l, 1, i - 1) \o SubSeq(l, i + 1, Len(l))

\* A thread slot with no live thread in it (not started, or ended).
NoThread ==
    [source |-> DummySource, lines |-> 0, pc |-> "idle", tokens |-> <<>>,
     data |-> <<>>, clash |-> FALSE]

Threads == 1..MaxThreads

\* Pager.current_source: sources[current_source_index], the dummy source on
\* IndexError.
CurrentSource ==
    IF current_source_index + 1 \in DOMAIN sources
    THEN sources[current_source_index + 1]
    ELSE DummySource

\* The state of a DummySource object: it has no attribute.
TheDummySource ==
    [class |-> "DummySource", content |-> <<>>, next |-> 0, flag |-> TRUE]

\* ------------------------------------------------------------------- Init
Init ==
    /\ sources = <<>>
    /\ current_source_index = 0
    /\ message = ""
    /\ in_colon_mode = FALSE
    /\ forward_forever = FALSE
    /\ raised = ""
    /\ created = 0
    /\ generator = [s \in Ids |-> <<>>]
    /\ eof = [s \in Ids |-> FALSE]
    /\ broken = [s \in Ids |-> FALSE]
    /\ text = [s \in Ids |-> <<>>]
    /\ cursor_position = [s \in Ids |-> 0]
    /\ line_tokens = [s \in Ids |-> << <<>> >>]
    /\ waiting_for_input_stream = [s \in Ids |-> FALSE]
    /\ threads = [w \in Threads |-> NoThread]
    /\ callbacks = <<>>
    /\ displaying_help = FALSE
    /\ help_sources = {}
    /\ app_exited = FALSE
    /\ focus = "source"
    /\ marks = [s \in Ids |-> <<>>]
    /\ vertical_scroll = [s \in Ids |-> 0]
    /\ src = TheDummySource
    /\ returned = <<>>
    /\ arg = <<>>
    /\ highlight_search = TRUE
    /\ window_highlight_search = [s \in Ids |-> TRUE]
    /\ wrap_lines = [s \in Ids |-> FALSE]

\* --------------------------------------------------------------- registry
\* add_source without `self.current_source_index.set(len(self.sources) - 1)`.
AddSource_KeepIndex ==
    /\ LET s == created + 1 IN
        /\ created' = s
        /\ sources' = Append(sources, s)
    /\ focus' = "source"
    /\ raised' = ""
    /\ window_highlight_search' =
           [window_highlight_search EXCEPT ![created + 1] = highlight_search]
    /\ UNCHANGED <<current_source_index, message, in_colon_mode,
                   forward_forever, uirest, srcstate, viewstate, threads,
                   callbacks, unit, arg, highlight_search, wrap_lines>>

\* Pager.add_source, for a newly created GeneratorSource.
AddSource ==
    /\ LET s == created + 1 IN
        /\ created' = s
        /\ sources' = Append(sources, s)
        /\ current_source_index' = Len(sources)
    /\ focus' = "source"
    /\ raised' = ""
    \* SourceInfo(source, self.highlight_search, ...)
    /\ window_highlight_search' =
           [window_highlight_search EXCEPT ![created + 1] = highlight_search]
    /\ UNCHANGED <<message, in_colon_mode, forward_forever, uirest, srcstate,
                   viewstate, threads, callbacks, unit, arg, highlight_search,
                   wrap_lines>>

\* Text of the IOError raised for a file that cannot be opened.
IOErrorText == "[Errno 2] No such file or directory"

\* open_file without the `except IOError` clause.
OpenFile_NoCatch(fails) ==
    \/ /\ fails
       /\ raised' = "IOError"
       /\ UNCHANGED <<registry, forward_forever, uistate, created, srcstate,
                      viewstate, threads, callbacks, unit, options>>
    \/ /\ ~fails
       /\ AddSource

\* Pager.open_file(filename).  Whether FileSource(filename) raises IOError
\* (the file does not exist or is unreadable) is an input.
OpenFile(fails) ==
    \/ /\ fails
       /\ message' = IOErrorText
       /\ raised' = ""
       /\ UNCHANGED <<sources, current_source_index, in_colon_mode,
                      forward_forever, uistate, created, srcstate, viewstate, threads,
                      callbacks, unit, options>>
    \/ /\ ~fails
       /\ AddSource

\* focus_previous_source without the `% len(self.sources)`.
FocusPreviousSource_NoModulo ==
    /\ IF Len(sources) = 0
       THEN /\ raised' = "ZeroDivisionError"
            /\ UNCHANGED <<current_source_index, in_colon_mode, focus>>
       ELSE /\ current_source_index' = current_source_index - 1
            /\ in_colon_mode' = FALSE
            /\ focus' = "source"
            /\ raised' = ""
    /\ UNCHANGED <<sources, message, forward_forever, uirest, created, srcstate,
                   viewstate, threads, callbacks, unit, options>>

\* Pager.focus_previous_source.
FocusPreviousSource ==
    /\ IF Len(sources) = 0
       THEN /\ raised' = "ZeroDivisionError"
            /\ UNCHANGED <<current_source_index, in_colon_mode, focus>>
       ELSE /\ current_source_index' =
                   (current_source_index - 1) % Len(sources)
            /\ in_colon_mode' = FALSE
            /\ focus' = "source"
            /\ raised' = ""
    /\ UNCHANGED <<sources, message, forward_forever, uirest, created, srcstate,
                   viewstate, threads, callbacks, unit, options>>

\* Pager.focus_next_source.
FocusNextSource ==
    /\ IF Len(sources) = 0
       THEN /\ raised' = "ZeroDivisionError"
            /\ UNCHANGED <<current_source_index, in_colon_mode, focus>>
       ELSE /\ current_source_index' =
                   (current_source_index + 1) % Len(sources)
            /\ in_colon_mode' = FALSE
            /\ focus' = "source"
            /\ raised' = ""
    /\ UNCHANGED <<sources, message, forward_forever, uirest, created, srcstate,
                   viewstate, threads, callbacks, unit, options>>

\* remove_current_source without the call of focus_previous_source.
RemoveCurrentSource_NoFocus ==
    /\ IF Len(sources) > 1
       THEN /\ IF InList(CurrentSource, sources)
               THEN /\ sources' = ListRemove(sources, CurrentSource)
                    /\ raised' = ""
               ELSE /\ raised' = "ValueError"
                    /\ UNCHANGED sources
            /\ UNCHANGED <<current_source_index, in_colon_mode, message>>
       ELSE /\ message' = "Can't remove the last buffer."
            /\ raised' = ""
            /\ UNCHANGED <<sources, current_source_index, in_colon_mode>>
    /\ UNCHANGED <<forward_forever, uistate, created, srcstate, viewstate, threads,
                   callbacks, unit, options>>

\* remove_current_source with the test `len(self.sources) > 0`.
RemoveCurrentSource_OffByOne ==
    /\ IF Len(sources) > 0
       THEN LET current_source == CurrentSource IN
            /\ current_source_index' =
                   (current_source_index - 1) % Len(sources)
            /\ in_colon_mode' = FALSE
            /\ focus' = "source"
            /\ IF InList(current_source, sources)
               THEN /\ sources' = ListRemove(sources, current_source)
                    /\ raised' = ""
               ELSE /\ raised' = "ValueError"
                    /\ UNCHANGED sources
            /\ UNCHANGED message
       ELSE /\ message' = "Can't remove the last buffer."
            /\ raised' = ""
            /\ UNCHANGED <<sources, current_source_index, in_colon_mode,
                           focus>>
    /\ UNCHANGED <<forward_forever, uirest, created, srcstate, viewstate, threads,
                   callbacks, unit, options>>

\* Pager.remove_current_source.
RemoveCurrentSource ==
    /\ IF Len(sources) > 1
       THEN LET current_source == CurrentSource IN
            \* focus_previous_source()
            /\ current_source_index' =
                   (current_source_index - 1) % Len(sources)
            /\ in_colon_mode' = FALSE
            /\ focus' = "source"
            \* self.sources.remove(current_source)
            /\ IF InList(current_source, sources)
               THEN /\ sources' = ListRemove(sources, current_source)
                    /\ raised' = ""
               ELSE /\ raised' = "ValueError"
                    /\ UNCHANGED sources
            /\ UNCHANGED message
       ELSE /\ message' = "Can't remove the last buffer."
            /\ raised' = ""
            /\ UNCHANGED <<sources, current_source_index, in_colon_mode,
                           focus>>
    /\ UNCHANGED <<forward_forever, uirest, created, srcstate, viewstate, threads,
                   callbacks, unit, options>>

\* Pager._firstline, bound under default_focus (a source window has focus).
FirstLine ==
    /\ CurrentSource # DummySource
    /\ cursor_position' = [cursor_position EXCEPT ![CurrentSource] = 0]
    /\ raised' = ""
    /\ UNCHANGED <<registry, forward_forever, uistate, created, srcstate, text,
                   line_tokens, waiting_for_input_stream, threads, callbacks, unit, options>>

\* Pager._lastline, bound under default_focus.
LastLine ==
    /\ CurrentSource # DummySource
    /\ cursor_position' = [cursor_position EXCEPT ![CurrentSource] =
                               Len(text[CurrentSource])]
    /\ raised' = ""
    /\ UNCHANGED <<registry, forward_forever, uistate, created, srcstate, text,
                   line_tokens, waiting_for_input_stream, threads, callbacks, unit, options>>

\* The mark names typed after "m" and "'": a custom name and the reserved
\* names.
MarkNames == {"a", "^", "$"}

\* _pagedown, _pageup, _halfdown, _halfup, _down, _up: the scroll functions
\* of prompt_toolkit move the cursor of the current buffer and the vertical
\* scroll of its window anywhere inside the text.
Motion(c, v) ==
    /\ focus = "source"
    /\ CurrentSource # DummySource
    /\ c \in 0..Len(text[CurrentSource])
    /\ v \in 0..(LineCount(text[CurrentSource]) - 1)
    /\ cursor_position' = [cursor_position EXCEPT ![CurrentSource] = c]
    /\ vertical_scroll' = [vertical_scroll EXCEPT ![CurrentSource] = v]
    /\ raised' = ""
    /\ UNCHANGED <<registry, forward_forever, displaying_help, help_sources,
                   app_exited, focus, marks, created, srcstate, text,
                   line_tokens, waiting_for_input_stream, threads, callbacks, unit, options>>

\* _mark storing the cursor position only.
Mark_NoScroll(name) ==
    /\ focus = "source"
    /\ CurrentSource # DummySource
    /\ LET s == CurrentSource IN
       marks' = [marks EXCEPT ![s] =
           [n \in DOMAIN marks[s] \cup {name} |->
               IF n = name THEN <<cursor_position[s], 0>> ELSE marks[s][n]]]
    /\ raised' = ""
    /\ UNCHANGED <<registry, forward_forever, displaying_help, help_sources,
                   app_exited, focus, vertical_scroll, created, srcstate,
                   viewstate, threads, callbacks, unit, options>>

\* SourceContainer._mark with event.data = name.
Mark(name) ==
    /\ focus = "source"
    /\ CurrentSource # DummySource
    /\ LET s == CurrentSource IN
       marks' = [marks EXCEPT ![s] =
           [n \in DOMAIN marks[s] \cup {name} |->
               IF n = name THEN <<cursor_position[s], vertical_scroll[s]>>
               ELSE marks[s][n]]]
    /\ raised' = ""
    /\ UNCHANGED <<registry, forward_forever, displaying_help, help_sources,
                   app_exited, focus, vertical_scroll, created, srcstate,
                   viewstate, threads, callbacks, unit, options>>

\* go_to_mark raising KeyError for a mark that is not set.
GotoMark_Raise(mark) ==
    /\ focus = "source"
    /\ CurrentSource # DummySource
    /\ LET s == CurrentSource
           found == mark \in {"^", "$"} \/ mark \in DOMAIN marks[s]
           target == IF mark = "^" THEN <<0, 0>>
                     ELSE IF mark = "$" THEN <<Len(text[s]), 0>>
                     ELSE marks[s][mark]
       IN  IF found
           THEN /\ cursor_position' =
                       [cursor_position EXCEPT ![s] = target[1]]
                /\ vertical_scroll' =
                       [vertical_scroll EXCEPT ![s] = target[2]]
                /\ raised' = ""
           ELSE /\ raised' = "KeyError"
                /\ UNCHANGED <<cursor_position, vertical_scroll>>
    /\ UNCHANGED <<registry, forward_forever, displaying_help, help_sources,
                   app_exited, focus, marks, created, srcstate, text,
                   line_tokens, waiting_for_input_stream, threads, callbacks, unit, options>>

\* go_to_mark looking the name up in source_info.marks first, and treating
\* "^" and "$" as start and end of file only when nothing is stored.
GotoMark_StoredFirst(mark) ==
    /\ focus = "source"
    /\ CurrentSource # DummySource
    /\ LET s == CurrentSource
           found == mark \in {"^", "$"} \/ mark \in DOMAIN marks[s]
           target == IF mark \in DOMAIN marks[s] THEN marks[s][mark]
                     ELSE IF mark = "^" THEN <<0, 0>>
                     ELSE <<Len(text[s]), 0>>
       IN  IF found
           THEN /\ cursor_position' =
                       [cursor_position EXCEPT ![s] = target[1]]
                /\ vertical_scroll' =
                       [vertical_scroll EXCEPT ![s] = target[2]]
           ELSE UNCHANGED <<cursor_position, vertical_scroll>>
    /\ raised' = ""
    /\ UNCHANGED <<registry, forward_forever, displaying_help, help_sources,
                   app_exited, focus, marks, created, srcstate, text,
                   line_tokens, waiting_for_input_stream, threads, callbacks, unit, options>>

\* SourceContainer._goto_mark / go_to_mark with event.data = mark.
GotoMark(mark) ==
    /\ focus = "source"
    /\ CurrentSource # DummySource
    /\ LET s == CurrentSource
           found == mark \in {"^", "$"} \/ mark \in DOMAIN marks[s]
           target == IF mark = "^" THEN <<0, 0>>
                     ELSE IF mark = "$" THEN <<Len(text[s]), 0>>
                     ELSE marks[s][mark]
       IN  IF found
           THEN /\ cursor_position' =
                       [cursor_position EXCEPT ![s] = target[1]]
                /\ vertical_scroll' =
                       [vertical_scroll EXCEPT ![s] = target[2]]
           ELSE \* except KeyError: pass
                UNCHANGED <<cursor_position, vertical_scroll>>
    /\ raised' = ""
    /\ UNCHANGED <<registry, forward_forever, displaying_help, help_sources,
                   app_exited, focus, marks, created, srcstate, text,
                   line_tokens, waiting_for_input_stream, threads, callbacks, unit, options>>

\* SourceContainer._follow.
Follow ==
    /\ forward_forever' = TRUE
    /\ raised' = ""
    /\ UNCHANGED <<registry, uistate, created, srcstate, viewstate, threads,
                   callbacks, unit, options>>

\* ------------------------------------------------------------ key bindings
\* The single-key bindings in force once keybinding(pager) has run, in the
\* order of their registration.
Bindings == <<
    [key |-> "q", handler |-> "_quit", filter |-> "default_focus", eager |-> TRUE],
    [key |-> "Q", handler |-> "_quit", filter |-> "default_focus|has_colon", eager |-> FALSE],
    [key |-> "h", handler |-> "_help", filter |-> "default_focus", eager |-> FALSE],
    [key |-> "d", handler |-> "_halfdown", filter |-> "default_focus", eager |-> FALSE],
    [key |-> "e", handler |-> "_down", filter |-> "default_focus", eager |-> FALSE],
    [key |-> "g", handler |-> "_firstline", filter |-> "default_focus", eager |-> TRUE],
    [key |-> "G", handler |-> "_lastline", filter |-> "default_focus", eager |-> FALSE],
    [key |-> "F", handler |-> "_follow", filter |-> "default_focus", eager |-> FALSE],
    [key |-> "F", handler |-> "_next_file", filter |-> "default_focus", eager |-> TRUE],
    [key |-> ":", handler |-> "_colon", filter |-> "default_focus", eager |-> FALSE],
    [key |-> "n", handler |-> "_next_file", filter |-> "has_colon", eager |-> FALSE],
    [key |-> "p", handler |-> "_previous_file", filter |-> "has_colon", eager |-> FALSE],
    [key |-> "d", handler |-> "_remove_source", filter |-> "has_colon", eager |-> FALSE],
    [key |-> "backspace", handler |-> "_cancel_colon", filter |-> "has_colon", eager |-> FALSE],
    [key |-> "q", handler |-> "_cancel_colon", filter |-> "has_colon", eager |-> TRUE],
    [key |-> "Any", handler |-> "_any", filter |-> "has_colon", eager |-> FALSE],
    [key |-> "e", handler |-> "_examine", filter |-> "has_colon", eager |-> FALSE],
    [key |-> "c-c", handler |-> "_cancel_examine", filter |-> "examine", eager |-> FALSE] >>

\* The keys the user may press; "x" has no binding of its own.
Keys == {"q", "Q", "h", "d", "g", "G", "F", ":", "n", "p", "backspace",
         "e", "c-c", "x"}

\* The value of a binding's filter in the current state.
FilterHolds(f) ==
    LET default_focus == focus = "source" /\ CurrentSource # DummySource
        has_colon == in_colon_mode
    IN  CASE f = "default_focus" -> default_focus
          [] f = "has_colon" -> has_colon
          [] f = "default_focus|has_colon" -> default_focus \/ has_colon
          [] f = "examine" -> focus = "examine"

\* KeyProcessor._get_matches: the bindings that match the key and whose
\* filter holds, those on Keys.Any first, each group in registration order.
Matches(key) ==
    LET any == SelectSeq(Bindings,
                   LAMBDA b : b.key = "Any" /\ FilterHolds(b.filter))
        exact == SelectSeq(Bindings,
                   LAMBDA b : b.key = key /\ FilterHolds(b.filter))
    IN  any \o exact

\* KeyProcessor._process: eager matches take priority, and the last match
\* is the one called.
Handler(key) ==
    LET matches == Matches(key)
        eager_matches == SelectSeq(matches, LAMBDA b : b.eager)
        chosen == IF eager_matches # <<>> THEN eager_matches ELSE matches
    IN  IF chosen = <<>> THEN "none" ELSE chosen[Len(chosen)].handler

\* The part of the state a key handler may change, as a record.
KeyState ==
    [sources |-> sources, index |-> current_source_index,
     colon |-> in_colon_mode, message |-> message, raised |-> "",
     created |-> created, help |-> displaying_help,
     help_sources |-> help_sources, exited |-> app_exited, focus |-> focus,
     follow |-> forward_forever, cursor |-> cursor_position]

\* current_source of a key state.
CurrentOf(r) ==
    IF r.index + 1 \in DOMAIN r.sources THEN r.sources[r.index + 1]
    ELSE DummySource

\* focus_previous_source / focus_next_source (delta = -1 / 1) on a key state.
FocusOn(r, delta) ==
    IF Len(r.sources) = 0
    THEN [r EXCEPT !.raised = "ZeroDivisionError"]
    ELSE [r EXCEPT !.index = (r.index + delta) % Len(r.sources),
                   !.focus = "source",
                   !.colon = FALSE]

\* remove_current_source on a key state.
RemoveOn(r) ==
    IF Len(r.sources) > 1
    THEN LET current_source == CurrentOf(r)
             f == FocusOn(r, -1)
         IN  IF InList(current_source, r.sources)
             THEN [f EXCEPT !.sources = ListRemove(r.sources, current_source)]
             ELSE [f EXCEPT !.raised = "ValueError"]
    ELSE [r EXCEPT !.message = "Can't remove the last buffer."]

\* add_source of a newly created source on a key state.
AddOn(r) ==
    [r EXCEPT !.created = r.created + 1,
              !.sources = Append(r.sources, r.created + 1),
              !.index = Len(r.sources),
              !.focus = "source"]

\* display_help on a key state.
DisplayHelpOn(r) ==
    IF ~r.help
    THEN [AddOn(r) EXCEPT !.help = TRUE,
                          !.help_sources = r.help_sources \cup {r.created + 1}]
    ELSE r

\* quit_help without the call of remove_current_source.
QuitHelpOn_NoRemove(r) ==
    IF r.help THEN [r EXCEPT !.help = FALSE] ELSE r

\* quit_help on a key state.
QuitHelpOn(r) ==
    IF r.help
    THEN LET d == RemoveOn(r)
         IN  IF d.raised # "" THEN d ELSE [d EXCEPT !.help = FALSE]
    ELSE r

\* The handlers keybinding(pager) binds that Pager does not define: enter
\* colon mode, leave it, leave it with "No command.", and start examine.
ColonHandlerOn(h, r) ==
    CASE h = "_colon" -> [r EXCEPT !.colon = TRUE]
      [] h = "_cancel_colon" -> [r EXCEPT !.colon = FALSE]
      [] h = "_any" -> [r EXCEPT !.colon = FALSE, !.message = "No command."]
      [] h = "_examine" -> [r EXCEPT !.focus = "examine", !.colon = FALSE]

\* The effect of key handler h on a key state.
HandlerOn(h, r) ==
    CASE h = "_quit" ->
             IF r.help THEN QuitHelpOn(r) ELSE [r EXCEPT !.exited = TRUE]
      [] h = "_help" -> DisplayHelpOn(r)
      [] h = "_firstline" ->
             [r EXCEPT !.cursor = [r.cursor EXCEPT ![CurrentOf(r)] = 0]]
      [] h = "_lastline" ->
             [r EXCEPT !.cursor = [r.cursor EXCEPT ![CurrentOf(r)] =
                                       Len(text[CurrentOf(r)])]]
      [] h = "_follow" -> [r EXCEPT !.follow = TRUE]
      [] h = "_next_file" -> FocusOn(r, 1)
      [] h = "_previous_file" -> FocusOn(r, -1)
      [] h = "_remove_source" -> RemoveOn(r)
      [] h \in {"_colon", "_cancel_colon", "_any", "_examine"} ->
             ColonHandlerOn(h, r)
      [] h = "_cancel_examine" -> [r EXCEPT !.focus = "source"]
      \* _halfdown and _down scroll the window (prompt_toolkit's scroll
      \* bindings); the text of a source in these sessions is one line
      [] h \in {"_halfdown", "_down"} -> r
      \* no binding matches: the key is dropped or typed into the focused
      \* read-only or examine buffer
      [] h = "none" -> r

\* A key press without the key_pressed hook on before_key_press.
KeyPress_NoHook(key) ==
    /\ ~app_exited
    /\ LET r == HandlerOn(Handler(key), KeyState)
       IN  /\ sources' = r.sources
           /\ current_source_index' = r.index
           /\ in_colon_mode' = r.colon
           /\ message' = r.message
           /\ raised' = r.raised
           /\ created' = r.created
           /\ displaying_help' = r.help
           /\ help_sources' = r.help_sources
           /\ app_exited' = r.exited
           /\ focus' = r.focus
           /\ forward_forever' = r.follow
           /\ cursor_position' = r.cursor
           \* the window of a source the handler added (the help source)
           /\ window_highlight_search' =
                  [s \in Ids |-> IF s > created /\ s <= r.created
                                  THEN highlight_search
                                  ELSE window_highlight_search[s]]
    \* KeyProcessor._call_handler: the handler consumes the repeat count
    /\ arg' = IF Handler(key) = "none" THEN arg ELSE <<>>
    /\ UNCHANGED <<srcstate, text, line_tokens, waiting_for_input_stream,
                   threads, callbacks, unit, marks, vertical_scroll,
                   highlight_search, wrap_lines>>

\* One key press: the before_key_press hook clears the message, then the
\* handler chosen by the key processor runs.
KeyPress(key) ==
    /\ ~app_exited
    /\ LET r == HandlerOn(Handler(key), [KeyState EXCEPT !.message = ""])
       IN  /\ sources' = r.sources
           /\ current_source_index' = r.index
           /\ in_colon_mode' = r.colon
           /\ message' = r.message
           /\ raised' = r.raised
           /\ created' = r.created
           /\ displaying_help' = r.help
           /\ help_sources' = r.help_sources
           /\ app_exited' = r.exited
           /\ focus' = r.focus
           /\ forward_forever' = r.follow
           /\ cursor_position' = r.cursor
           \* the window of a source the handler added (the help source)
           /\ window_highlight_search' =
                  [s \in Ids |-> IF s > created /\ s <= r.created
                                  THEN highlight_search
                                  ELSE window_highlight_search[s]]
    \* KeyProcessor._call_handler: the handler consumes the repeat count
    /\ arg' = IF Handler(key) = "none" THEN arg ELSE <<>>
    /\ UNCHANGED <<srcstate, text, line_tokens, waiting_for_input_stream,
                   threads, callbacks, unit, marks, vertical_scroll,
                   highlight_search, wrap_lines>>

\* The string the loops `for c in "01234556789"` of Pager.__init__ and of
\* keybinding(pager) run over, each binding a _handle_arg to the key c.
DigitLoop == <<"0", "1", "2", "3", "4", "5", "5", "6", "7", "8", "9">>

Digits == {DigitLoop[i] : i \in 1..Len(DigitLoop)}

\* The value of the loop variable c that a _handle_arg sees when it is
\* called: the closures share the variable of the enclosing function, which
\* holds the last character of the string once the loop has ended.
HandleArgChar == DigitLoop[Len(DigitLoop)]

\* A digit key pressed while the source window has the focus: the hook
\* clears the message, then the _handle_arg bound to the key calls
\* event.append_to_arg_count(c).
DigitPress(d) ==
    /\ ~app_exited
    /\ FilterHolds("default_focus")
    /\ Len(arg) < MaxArgLen
    /\ message' = ""
    /\ arg' = Append(arg, HandleArgChar)
    /\ raised' = ""
    /\ UNCHANGED <<sources, current_source_index, in_colon_mode,
                   forward_forever, uistate, created, srcstate, viewstate,
                   threads, callbacks, unit, highlight_search,
                   window_highlight_search, wrap_lines>>

\* Pager._toggle_highlighting, bound to Escape "u" with no filter.  The
\* windows built by create_buffer_window test the value of highlight_search
\* they were given when they were created.
ToggleHighlighting ==
    /\ ~app_exited
    /\ highlight_search' = ~highlight_search
    /\ message' = ""
    /\ arg' = <<>>
    /\ raised' = ""
    /\ UNCHANGED <<sources, current_source_index, in_colon_mode,
                   forward_forever, uistate, created, srcstate, viewstate,
                   threads, callbacks, unit, window_highlight_search,
                   wrap_lines>>

\* Enter in the examine buffer: the hook clears the message and the buffer's
\* accept handler runs.  The handler, ExamineBar's open_buffer(buff), calls
\* open_file(buff.text), where open_file is what PagerLayout passed to
\* ExamineBar: its own open_buffer(buff), which evaluates buff.text on the
\* str it is given before Pager.open_file is reached.
ExamineAccept ==
    /\ ~app_exited
    /\ focus = "examine"
    /\ message' = ""
    /\ arg' = <<>>
    /\ raised' = "AttributeError"
    /\ UNCHANGED <<sources, current_source_index, in_colon_mode,
                   forward_forever, uistate, created, srcstate, viewstate,
                   threads, callbacks, unit, highlight_search,
                   window_highlight_search, wrap_lines>>

\* SourceContainer._wrap, bound to "w" under has_colon: the hook clears the
\* message, then the handler toggles wrap_lines of current_source_info
\* (a throw-away SourceInfo when there is no source).
Wrap ==
    /\ ~app_exited
    /\ FilterHolds("has_colon")
    /\ message' = ""
    /\ arg' = <<>>
    /\ wrap_lines' = IF CurrentSource = DummySource THEN wrap_lines
                     ELSE [wrap_lines EXCEPT ![CurrentSource] = ~@]
    /\ raised' = ""
    /\ UNCHANGED <<sources, current_source_index, in_colon_mode,
                   forward_forever, uistate, created, srcstate, viewstate,
                   threads, callbacks, unit, highlight_search,
                   window_highlight_search>>

\* --------------------------------------------------------------- prefetch
\* _after_render calling source.read_chunk() itself instead of starting a
\* thread for receive_content_from_generator.
AfterRender_Inline(window_height, last_visible_line) ==
    LET source == CurrentSource IN
    IF source = DummySource
    THEN /\ raised' = "KeyError"
         /\ UNCHANGED <<registry, forward_forever, uistate, created, srcstate,
                        viewstate, threads, callbacks, unit, options>>
    ELSE
      LET line_count == LineCount(text[source])
          cursor_row == CursorRow(text[source], cursor_position[source])
          lines_below_bottom == line_count - last_visible_line
      IN
      /\ last_visible_line \in
             cursor_row .. Min(cursor_row + window_height - 1, line_count - 1)
      /\ IF /\ ~waiting_for_input_stream[source]
            /\ ~eof[source]
            /\ (lines_below_bottom < window_height * 2 \/ forward_forever)
         THEN \/ /\ eof' = [eof EXCEPT ![source] = TRUE]
                 /\ UNCHANGED <<generator, text>>
              \/ \E chunk \in ChunkSet :
                    /\ Len(generator[source]) < MaxChunks
                    /\ ~broken[source]
                    /\ generator' = [generator EXCEPT ![source] =
                                         Append(@, chunk)]
                    /\ text' = [text EXCEPT ![source] =
                                    @ \o Flatten(<<chunk>>)]
                    /\ UNCHANGED eof
         ELSE UNCHANGED <<generator, eof, text>>
      /\ raised' = ""
      /\ UNCHANGED <<registry, forward_forever, uistate, created, broken,
                     cursor_position, line_tokens, waiting_for_input_stream,
                     threads, callbacks, unit, options>>

\* _after_render without `not source_info.waiting_for_input_stream` in its
\* guard.
AfterRender_NoFlagTest(window_height, last_visible_line) ==
    LET source == CurrentSource IN
    IF source = DummySource
    THEN /\ raised' = "KeyError"
         /\ UNCHANGED <<registry, forward_forever, uistate, created, srcstate,
                        viewstate, threads, callbacks, unit, options>>
    ELSE
      LET line_count == LineCount(text[source])
          cursor_row == CursorRow(text[source], cursor_position[source])
          lines_below_bottom == line_count - last_visible_line
      IN
      /\ last_visible_line \in
             cursor_row .. Min(cursor_row + window_height - 1, line_count - 1)
      /\ IF /\ ~eof[source]
            /\ (lines_below_bottom < window_height * 2 \/ forward_forever)
         THEN /\ \E w \in Threads : threads[w].pc = "idle"
              /\ waiting_for_input_stream' =
                     [waiting_for_input_stream EXCEPT ![source] = TRUE]
              /\ LET w == CHOOSE v \in Threads :
                              /\ threads[v].pc = "idle"
                              /\ \A u \in 1..(v - 1) : threads[u].pc # "idle"
                 IN  threads' = [threads EXCEPT ![w] =
                         [source |-> source,
                          lines  |-> window_height * 2 - lines_below_bottom,
                          pc     |-> "check",
                          tokens |-> <<>>,
                          data   |-> <<>>,
                          clash  |-> FALSE]]
              /\ UNCHANGED <<text, cursor_position, line_tokens>>
         ELSE UNCHANGED <<viewstate, threads>>
      /\ raised' = ""
      /\ UNCHANGED <<registry, forward_forever, uistate, created, srcstate,
                     callbacks, unit, options>>

\* Pager._after_render with render info (window_height, last_visible_line).
\* The render info is that of the window just rendered: the window shows at
\* most window_height consecutive lines of the text, the line of the cursor
\* among them (fewer lines than window_height when lines wrap).
AfterRender(window_height, last_visible_line) ==
    LET source == CurrentSource IN
    IF source = DummySource
    THEN \* self.source_info[source] has no entry for the dummy source
         /\ raised' = "KeyError"
         /\ UNCHANGED <<registry, forward_forever, uistate, created, srcstate,
                        viewstate, threads, callbacks, unit, options>>
    ELSE
      LET line_count == LineCount(text[source])
          cursor_row == CursorRow(text[source], cursor_position[source])
          lines_below_bottom == line_count - last_visible_line
      IN
      /\ last_visible_line \in
             cursor_row .. Min(cursor_row + window_height - 1, line_count - 1)
      /\ IF /\ ~waiting_for_input_stream[source]
            /\ ~eof[source]
            /\ (lines_below_bottom < window_height * 2 \/ forward_forever)
         THEN /\ \E w \in Threads : threads[w].pc = "idle"
              /\ waiting_for_input_stream' =
                     [waiting_for_input_stream EXCEPT ![source] = TRUE]
              /\ LET w == CHOOSE v \in Threads :
                              /\ threads[v].pc = "idle"
                              /\ \A u \in 1..(v - 1) : threads[u].pc # "idle"
                 IN  threads' = [threads EXCEPT ![w] =
                         [source |-> source,
                          lines  |-> window_height * 2 - lines_below_bottom,
                          pc     |-> "check",
                          tokens |-> <<>>,
                          data   |-> <<>>,
                          clash  |-> FALSE]]
              /\ UNCHANGED <<text, cursor_position, line_tokens>>
         ELSE UNCHANGED <<viewstate, threads>>
      /\ raised' = ""
      /\ UNCHANGED <<registry, forward_forever, uistate, created, srcstate,
                     callbacks, unit, options>>

\* Number of read_chunk calls in progress on source s.
ReadsInProgress(s) ==
    Cardinality({w \in Threads :
                     threads[w].source = s /\ threads[w].pc = "reading"})

\* receive_content_from_generator: the loop test and, when it passes, the
\* call of source.read_chunk().  A call of next() on a generator that another
\* thread is executing raises ValueError; whether an overlapping call hits
\* that window depends on the scheduling.
ThreadLoopTest(w) ==
    /\ threads[w].pc = "check"
    /\ LET t == threads[w] IN
       IF t.lines > 0 /\ ~eof[t.source]
       THEN \E c \in IF \E v \in Threads :
                          /\ v # w
                          /\ threads[v].source = t.source
                          /\ threads[v].pc = "reading"
                          /\ ~threads[v].clash
                     THEN BOOLEAN ELSE {FALSE} :
                threads' = [threads EXCEPT ![w].pc = "reading",
                                           ![w].clash = c]
       ELSE \* the thread's target returns
            threads' = [threads EXCEPT ![w] = NoThread]
    /\ UNCHANGED <<registry, forward_forever, uistate, raised, created, srcstate,
                   viewstate, callbacks, unit, options>>

\* GeneratorSource.read_chunk returns (or raises) in worker w.  What the
\* caller-supplied generator does on next() is an input: it yields another
\* chunk (at most MaxChunks in all) or it is exhausted.  A generator that
\* has raised is finished: every later next() raises StopIteration.
ReadChunk(w) ==
    /\ threads[w].pc = "reading"
    /\ LET s == threads[w].source IN
       IF threads[w].clash
       THEN \* ValueError: generator already executing; the thread ends
            /\ threads' = [threads EXCEPT ![w] = NoThread]
            /\ UNCHANGED <<generator, eof>>
       ELSE \/ \* StopIteration
               /\ eof' = [eof EXCEPT ![s] = TRUE]
               /\ threads' = [threads EXCEPT ![w].pc = "handle",
                                             ![w].tokens = <<>>]
               /\ UNCHANGED generator
            \/ \E chunk \in ChunkSet :
                  /\ Len(generator[s]) < MaxChunks
                  /\ ~eof[s]
                  /\ ~broken[s]
                  /\ generator' = [generator EXCEPT ![s] = Append(@, chunk)]
                  /\ threads' = [threads EXCEPT ![w].pc = "handle",
                                                ![w].tokens = chunk]
                  /\ UNCHANGED eof
    /\ UNCHANGED <<registry, forward_forever, uistate, raised, created, broken,
                   viewstate, callbacks, unit, options>>

\* read_chunk raises an I/O error in worker w: next(self.generator) raises
\* OSError, read_chunk catches StopIteration only, and
\* receive_content_from_generator has no handler, so the thread ends.
ReadChunkRaises(w) ==
    /\ threads[w].pc = "reading"
    /\ ~threads[w].clash
    /\ LET s == threads[w].source IN
       /\ ~eof[s]
       /\ ~broken[s]
       /\ broken' = [broken EXCEPT ![s] = TRUE]
    /\ threads' = [threads EXCEPT ![w] = NoThread]
    /\ UNCHANGED <<registry, forward_forever, uistate, raised, created, generator, eof,
                   viewstate, callbacks, unit, options>>

\* handle_content: one iteration of `for token_char in tokens`, in worker w.
HandleContent(w) ==
    /\ threads[w].pc = "handle"
    /\ threads[w].tokens # <<>>
    /\ LET t == threads[w]
           s == t.source
           token_char == Head(t.tokens)
           char == token_char[2]
           lt == line_tokens[s]
       IN
       IF char = NL
       THEN /\ line_tokens' = [line_tokens EXCEPT ![s] = Append(lt, <<>>)]
            /\ threads' = [threads EXCEPT ![w].tokens = Tail(t.tokens),
                                          ![w].data = Append(t.data, char),
                                          ![w].lines = t.lines - 1]
       ELSE /\ line_tokens' = [line_tokens EXCEPT ![s] =
                    [lt EXCEPT ![Len(lt)] = Append(lt[Len(lt)], token_char)]]
            /\ threads' = [threads EXCEPT ![w].tokens = Tail(t.tokens),
                                          ![w].data = Append(t.data, char)]
    /\ UNCHANGED <<registry, forward_forever, uistate, raised, created, srcstate, text,
                   cursor_position, waiting_for_input_stream, callbacks, unit, options>>

\* loop.call_soon(insert_text, data), in worker w.
CallSoon(w) ==
    /\ threads[w].pc = "handle"
    /\ threads[w].tokens = <<>>
    /\ callbacks' = Append(callbacks,
           [source |-> threads[w].source, data |-> threads[w].data])
    /\ threads' = [threads EXCEPT ![w].pc = "check", ![w].data = <<>>]
    /\ UNCHANGED <<registry, forward_forever, uistate, raised, created, srcstate,
                   viewstate, unit, options>>

\* insert_text without `if self.forward_forever: b.cursor_position = ...`.
InsertText_NoFollow ==
    /\ callbacks # <<>>
    /\ LET cb == Head(callbacks)
           s == cb.source
       IN
       /\ text' = [text EXCEPT ![s] = text[s] \o cb.data]
       /\ waiting_for_input_stream' =
              [waiting_for_input_stream EXCEPT ![s] = FALSE]
    /\ callbacks' = Tail(callbacks)
    /\ raised' = ""
    /\ UNCHANGED <<registry, forward_forever, uistate, created, srcstate,
                   cursor_position, line_tokens, threads, unit, options>>

\* insert_text with `b.cursor_position = len(b.text)` outside the test of
\* forward_forever.
InsertText_AlwaysFollow ==
    /\ callbacks # <<>>
    /\ LET cb == Head(callbacks)
           s == cb.source
           new_text == text[s] \o cb.data
       IN
       /\ text' = [text EXCEPT ![s] = new_text]
       /\ cursor_position' = [cursor_position EXCEPT ![s] = Len(new_text)]
       /\ waiting_for_input_stream' =
              [waiting_for_input_stream EXCEPT ![s] = FALSE]
    /\ callbacks' = Tail(callbacks)
    /\ raised' = ""
    /\ UNCHANGED <<registry, forward_forever, uistate, created, srcstate,
                   line_tokens, threads, unit, options>>

\* insert_text with Document("".join(list_of_fragments), ...): the new chunk
\* replaces the buffer text.
InsertText_Replace ==
    /\ callbacks # <<>>
    /\ LET cb == Head(callbacks)
           s == cb.source
           new_text == cb.data
       IN
       /\ text' = [text EXCEPT ![s] = new_text]
       /\ cursor_position' =
              IF forward_forever
              THEN [cursor_position EXCEPT ![s] = Len(new_text)]
              ELSE [cursor_position EXCEPT ![s] = Min(@, Len(new_text))]
       /\ waiting_for_input_stream' =
              [waiting_for_input_stream EXCEPT ![s] = FALSE]
    /\ callbacks' = Tail(callbacks)
    /\ raised' = ""
    /\ UNCHANGED <<registry, forward_forever, uistate, created, srcstate,
                   line_tokens, threads, unit, options>>

\* insert_text writing to the buffer and the SourceInfo of the source that is
\* current when the callback runs, instead of those of its own source.
InsertText_CurrentSource ==
    /\ callbacks # <<>>
    /\ LET cb == Head(callbacks)
           s == IF CurrentSource = DummySource THEN cb.source
                ELSE CurrentSource
           new_text == text[s] \o cb.data
       IN
       /\ text' = [text EXCEPT ![s] = new_text]
       /\ cursor_position' =
              IF forward_forever
              THEN [cursor_position EXCEPT ![s] = Len(new_text)]
              ELSE cursor_position
       /\ waiting_for_input_stream' =
              [waiting_for_input_stream EXCEPT ![s] = FALSE]
    /\ callbacks' = Tail(callbacks)
    /\ raised' = ""
    /\ UNCHANGED <<registry, forward_forever, uistate, created, srcstate,
                   line_tokens, threads, unit, options>>

\* insert_text, run by the event loop for the oldest queued callback.
InsertText ==
    /\ callbacks # <<>>
    /\ LET cb == Head(callbacks)
           s == cb.source
           new_text == text[s] \o cb.data
       IN
       /\ text' = [text EXCEPT ![s] = new_text]
       /\ cursor_position' =
              IF forward_forever
              THEN [cursor_position EXCEPT ![s] = Len(new_text)]
              ELSE cursor_position
       /\ waiting_for_input_stream' =
              [waiting_for_input_stream EXCEPT ![s] = FALSE]
    /\ callbacks' = Tail(callbacks)
    /\ raised' = ""
    /\ UNCHANGED <<registry, forward_forever, uistate, created, srcstate,
                   line_tokens, threads, unit, options>>

\* ----------------------------------------------------------- source classes
\* Characters of the texts given to the source classes.
Chars == {"a", NL}

\* The strings of at most n characters.
Strings(n) == UNION { [1..k -> Chars] : k \in 0..n }

\* Formatted text: a list of (style, text) fragments.
Fragments == { <<"", <<"a">> >>, <<"bold", <<"a", NL>> >>, <<"", <<>> >> }
FormattedTexts == UNION { [1..k -> Fragments] : k \in 0..MaxFragments }

RECURSIVE explode_text_fragments(_)
\* prompt_toolkit's explode_text_fragments: every fragment is split into one
\* (style, character) fragment per character.
explode_text_fragments(fragments) ==
    IF fragments = <<>> THEN <<>>
    ELSE LET style == Head(fragments)[1]
             string == Head(fragments)[2]
         IN  [i \in 1..Len(string) |-> <<style, string[i]>>]
                 \o explode_text_fragments(Tail(fragments))

RECURSIVE fragment_list_to_text(_)
\* The text of a formatted text: the texts of its fragments, concatenated.
fragment_list_to_text(fragments) ==
    IF fragments = <<>> THEN <<>>
    ELSE Head(fragments)[2] \o fragment_list_to_text(Tail(fragments))

\* StringSource(text), FormattedTextSource(formatted_text) and
\* GeneratorSource(generator) after __init__.  `flag` is _read or _eof; a
\* generator is the list of the chunks it yields and the number of them it
\* has yielded.
StringSource(t) ==
    [class |-> "StringSource", content |-> t, next |-> 0, flag |-> FALSE]
FormattedTextSource(formatted_text) ==
    [class |-> "FormattedTextSource", content |-> formatted_text, next |-> 0,
     flag |-> FALSE]
GeneratorSource(chunks) ==
    [class |-> "GeneratorSource", content |-> chunks, next |-> 0,
     flag |-> FALSE]

\* Source.eof() of the three classes: _read, _read, _eof.
SourceEof(o) == o.flag

\* StringSource.read_chunk without `self._read = True`.
StringSource_read_chunk_NoFlag ==
    /\ src.class = "StringSource"
    /\ Len(returned) < MaxReads
    /\ returned' = Append(returned,
           IF src.flag THEN <<>>
           ELSE explode_text_fragments(<< <<"", src.content>> >>))
    /\ raised' = ""
    /\ UNCHANGED <<src, registry, forward_forever, uistate, created, srcstate,
                   viewstate, threads, callbacks, options>>

\* StringSource.read_chunk
StringSource_read_chunk ==
    /\ src.class = "StringSource"
    /\ Len(returned) < MaxReads
    /\ IF src.flag
       THEN /\ returned' = Append(returned, <<>>)
            /\ UNCHANGED src
       ELSE /\ src' = [src EXCEPT !.flag = TRUE]
            /\ returned' = Append(returned,
                   explode_text_fragments(<< <<"", src.content>> >>))
    /\ raised' = ""
    /\ UNCHANGED <<registry, forward_forever, uistate, created, srcstate,
                   viewstate, threads, callbacks, options>>

\* FormattedTextSource.read_chunk
FormattedTextSource_read_chunk ==
    /\ src.class = "FormattedTextSource"
    /\ Len(returned) < MaxReads
    /\ IF src.flag
       THEN /\ returned' = Append(returned, <<>>)
            /\ UNCHANGED src
       ELSE /\ src' = [src EXCEPT !.flag = TRUE]
            /\ returned' = Append(returned,
                   explode_text_fragments(src.content))
    /\ raised' = ""
    /\ UNCHANGED <<registry, forward_forever, uistate, created, srcstate,
                   viewstate, threads, callbacks, options>>

\* GeneratorSource.read_chunk without the `except StopIteration` clause.
GeneratorSource_read_chunk_NoExcept ==
    /\ src.class = "GeneratorSource"
    /\ Len(returned) < MaxReads
    /\ IF src.next < Len(src.content)
       THEN /\ src' = [src EXCEPT !.next = @ + 1]
            /\ returned' = Append(returned,
                   explode_text_fragments(src.content[src.next + 1]))
            /\ raised' = ""
       ELSE /\ raised' = "StopIteration"
            /\ returned' = Append(returned, <<>>)
            /\ UNCHANGED src
    /\ UNCHANGED <<registry, forward_forever, uistate, created, srcstate,
                   viewstate, threads, callbacks, options>>

\* GeneratorSource.read_chunk, called while no other call is in progress.
\* next() of a generator that has yielded all its chunks raises StopIteration,
\* the first time and every later time.
GeneratorSource_read_chunk ==
    /\ src.class = "GeneratorSource"
    /\ Len(returned) < MaxReads
    /\ IF src.next < Len(src.content)
       THEN /\ src' = [src EXCEPT !.next = @ + 1]
            /\ returned' = Append(returned,
                   explode_text_fragments(src.content[src.next + 1]))
       ELSE \* except StopIteration
            /\ src' = [src EXCEPT !.flag = TRUE]
            /\ returned' = Append(returned, <<>>)
    /\ raised' = ""
    /\ UNCHANGED <<registry, forward_forever, uistate, created, srcstate,
                   viewstate, threads, callbacks, options>>

\* ----------------------------------------------------------- specifications
WorkerStep(w) ==
    \/ ThreadLoopTest(w)
    \/ ReadChunk(w)
    \/ HandleContent(w)
    \/ CallSoon(w)

\* The render ticks the renderer can deliver.
RenderTick ==
    \E h \in 1..MaxWindowHeight, l \in 0..MaxChunks : AfterRender(h, l)

\* A pager session over one streaming GeneratorSource: one add_source, then
\* keys, render ticks, worker threads and event-loop callbacks.
Next ==
    \/ (created = 0 /\ AddSource)
    \/ RemoveCurrentSource
    \/ FocusPreviousSource
    \/ FocusNextSource
    \/ Follow
    \/ FirstLine
    \/ LastLine
    \/ RenderTick
    \/ InsertText
    \/ \E w \in Threads : WorkerStep(w)

Spec == Init /\ [][Next]_vars

\* The same session under fair scheduling: every started thread keeps
\* running, and the event loop keeps running its queued callbacks.
FairSpec ==
    /\ Init
    /\ [][Next]_vars
    /\ \A w \in Threads : WF_vars(WorkerStep(w))
    /\ WF_vars(InsertText)

\* The session under fair scheduling in which, moreover, render ticks keep
\* occurring.
FairSpecTicks ==
    /\ Init
    /\ [][Next]_vars
    /\ \A w \in Threads : WF_vars(WorkerStep(w))
    /\ WF_vars(InsertText)
    /\ WF_vars(RenderTick)

\* The session with a generator that may raise an I/O error on a read.
WorkerStepIO(w) ==
    \/ WorkerStep(w)
    \/ ReadChunkRaises(w)

NextIO ==
    \/ Next
    \/ \E w \in Threads : ReadChunkRaises(w)

SpecIO == Init /\ [][NextIO]_vars

FairSpecIO ==
    /\ Init
    /\ [][NextIO]_vars
    /\ \A w \in Threads : WF_vars(WorkerStepIO(w))
    /\ WF_vars(InsertText)

\* The registry operations alone.
NextRegistry ==
    \/ (created < MaxSources /\ AddSource)
    \/ RemoveCurrentSource
    \/ FocusPreviousSource
    \/ FocusNextSource

SpecRegistry == Init /\ [][NextRegistry]_vars

\* The registry operations and open_file.
NextFiles ==
    \/ NextRegistry
    \/ \E fails \in BOOLEAN :
          /\ (fails \/ created < MaxSources)
          /\ OpenFile(fails)

SpecFiles == Init /\ [][NextFiles]_vars

\* Sources added at startup, then key presses.
NextKeys ==
    \/ (created < MaxSources /\ help_sources = {} /\ AddSource)
    \/ \E key \in Keys :
          /\ (Handler(key) = "_help" => created < MaxSources)
          /\ KeyPress(key)

SpecKeys == Init /\ [][NextKeys]_vars

\* Marks and motions on sources that load up to MaxMarkChunks chunks.
NextMarks ==
    \/ (created < MaxMarkSources /\ AddSource)
    \/ FocusNextSource
    \/ RenderTick
    \/ InsertText
    \/ \E w \in Threads :
          /\ WorkerStep(w)
          /\ \A s \in Ids : Len(generator'[s]) <= MaxMarkChunks
    \/ \E c \in 0..(2 * MaxChunks), v \in 0..MaxChunks : Motion(c, v)
    \/ \E name \in MarkNames : Mark(name)
    \/ \E name \in MarkNames : GotoMark(name)

SpecMarks == Init /\ [][NextMarks]_vars

\* Sequences of add / remove_current that never attempt to remove the sole
\* remaining source.
NextAddRemove ==
    \/ (created < MaxSources /\ AddSource)
    \/ (Len(sources) > 1 /\ RemoveCurrentSource)

SpecAddRemove == Init /\ [][NextAddRemove]_vars

\* A streaming source whose chunks are merged while the user sets marks,
\* toggles line wrapping and switches follow mode on.
NextMerge ==
    \/ (created < MaxMarkSources /\ AddSource)
    \/ KeyPress(":")
    \/ Wrap
    \/ Follow
    \/ LastLine
    \/ Mark("a")
    \/ RenderTick
    \/ InsertText
    \/ \E w \in Threads :
          /\ WorkerStep(w)
          /\ \A s \in Ids : Len(generator'[s]) <= MaxMergeChunks

SpecMerge == Init /\ [][NextMerge]_vars

\* Key presses, and paths accepted in the examine buffer.
NextExamine ==
    \/ NextKeys
    \/ ExamineAccept

SpecExamine == Init /\ [][NextExamine]_vars

\* Key presses, digit keys among them.
NextArg ==
    \/ (created < MaxArgSources /\ help_sources = {} /\ AddSource)
    \/ \E key \in Keys :
          /\ (Handler(key) = "_help" => created < MaxArgSources)
          /\ KeyPress(key)
    \/ \E d \in Digits : DigitPress(d)

SpecArg == Init /\ [][NextArg]_vars

\* The registry operations and the toggling of search highlighting.
NextHighlight ==
    \/ (created < MaxHighlightSources /\ AddSource)
    \/ RemoveCurrentSource
    \/ FocusNextSource
    \/ ToggleHighlighting

SpecHighlight == Init /\ [][NextHighlight]_vars

\* Several streaming sources, each loading up to MaxSwitchChunks chunks,
\* with sources added, switched and removed while worker tasks are running.
NextSwitch ==
    \/ (created < MaxSwitchSources /\ AddSource)
    \/ RemoveCurrentSource
    \/ FocusNextSource
    \/ Follow
    \/ RenderTick
    \/ InsertText
    \/ \E w \in Threads :
          /\ WorkerStep(w)
          /\ \A s \in Ids : Len(generator'[s]) <= MaxSwitchChunks

SpecSwitch == Init /\ [][NextSwitch]_vars

\* One source object of each class and each content, and read_chunk calls
\* on it, one after the other.
InitSources ==
    /\ sources = <<>>
    /\ current_source_index = 0
    /\ message = ""
    /\ in_colon_mode = FALSE
    /\ forward_forever = FALSE
    /\ raised = ""
    /\ created = 0
    /\ generator = [s \in Ids |-> <<>>]
    /\ eof = [s \in Ids |-> FALSE]
    /\ broken = [s \in Ids |-> FALSE]
    /\ text = [s \in Ids |-> <<>>]
    /\ cursor_position = [s \in Ids |-> 0]
    /\ line_tokens = [s \in Ids |-> << <<>> >>]
    /\ waiting_for_input_stream = [s \in Ids |-> FALSE]
    /\ threads = [w \in Threads |-> NoThread]
    /\ callbacks = <<>>
    /\ displaying_help = FALSE
    /\ help_sources = {}
    /\ app_exited = FALSE
    /\ focus = "source"
    /\ marks = [s \in Ids |-> <<>>]
    /\ vertical_scroll = [s \in Ids |-> 0]
    /\ src \in { StringSource(t) : t \in Strings(MaxTextLen) }
               \cup { FormattedTextSource(f) : f \in FormattedTexts }
               \cup { GeneratorSource(g) :
                         g \in UNION { [1..k -> FormattedTexts] :
                                           k \in 0..MaxGenerated } }
    /\ returned = <<>>
    /\ arg = <<>>
    /\ highlight_search = TRUE
    /\ window_highlight_search = [s \in Ids |-> TRUE]
    /\ wrap_lines = [s \in Ids |-> FALSE]

NextSources ==
    \/ StringSource_read_chunk
    \/ FormattedTextSource_read_chunk
    \/ GeneratorSource_read_chunk

SpecSources == InitSources /\ [][NextSources]_vars

\* ------------------------------------------------------------------ claims
\* The threads of source s that have not ended.
RunningThreads(s) ==
    {w \in Threads : threads[w].source = s /\ threads[w].pc # "idle"}

\* Callbacks queued for source s and not yet run by the event loop.
QueuedCallbacks(s) ==
    {i \in 1..Len(callbacks) : callbacks[i].source = s}

\* A task of source s still has a read to issue, a read in progress, a chunk
\* to hand off, or a handed-off chunk that is not merged yet.
TaskPending(s) ==
    \/ \E w \in Threads :
          /\ threads[w].source = s
          /\ \/ threads[w].pc \in {"reading", "handle"}
             \/ (threads[w].pc = "check" /\ threads[w].lines > 0 /\ ~eof[s])
    \/ QueuedCallbacks(s) # {}

\* C1: for every source, in every reachable state, at most one read_chunk
\* call is in progress and at most one worker started for it has not
\* finished.
C1_AtMostOneRead ==
    \A s \in Ids :
        /\ ReadsInProgress(s) <= 1
        /\ Cardinality(RunningThreads(s)) <= 1

\* C2: the text accumulated for a generator source is always a prefix of the
\* concatenation of the generator's chunks in read order, and equals the full
\* concatenation once the source is at eof and every handoff is merged.
C2_RoundTrip ==
    \A s \in Ids :
        /\ IsPrefix(text[s], Flatten(generator[s]))
        /\ (eof[s] /\ RunningThreads(s) = {} /\ QueuedCallbacks(s) = {})
               => text[s] = Flatten(generator[s])

\* C3: whenever the source list is non-empty, 0 <= current_source_index <
\* len(sources), so current_source is a source of the list.
C3_IndexValid ==
    Len(sources) > 0 =>
        /\ 0 <= current_source_index
        /\ current_source_index < Len(sources)
        /\ CurrentSource # DummySource

\* C4: in runs of add_source / remove_current_source only, that never try to
\* remove the sole source, once a source has been added the list has length
\* >= 1 and current_source is a source of the list.
C4_AddRemoveValid ==
    created >= 1 =>
        /\ Len(sources) >= 1
        /\ CurrentSource # DummySource
        /\ InList(CurrentSource, sources)

\* C4 witness: a source has been removed again after two were added.
C4_Witness ==
    /\ created >= 2
    /\ Len(sources) = 1
    /\ CurrentSource = sources[1]

\* C5: remove_current_source on a list of exactly one source leaves the list
\* and the index unchanged and sets a non-empty message; no step takes a
\* non-empty list below one source.
C5_RejectLastRemoval ==
    [][ /\ (Len(sources) = 1 /\ RemoveCurrentSource) =>
               /\ sources' = sources
               /\ current_source_index' = current_source_index
               /\ message' # ""
        /\ (Len(sources) >= 1 => Len(sources') >= 1) ]_vars

\* C5 witness: the removal of the sole source has been rejected.
C5_Witness ==
    /\ Len(sources) = 1
    /\ created = 1
    /\ message = "Can't remove the last buffer."

\* C6: remove_current_source on n > 1 sources with current index i deletes
\* exactly entry i, keeps the order of the others, and makes the source that
\* cyclically preceded entry i the current one.
C6_RemoveFocusesPrevious ==
    [][ (/\ Len(sources) > 1
         /\ current_source_index < Len(sources)
         /\ RemoveCurrentSource) =>
            LET n == Len(sources)
                i == current_source_index
            IN  /\ sources' = SubSeq(sources, 1, i) \o SubSeq(sources, i + 2, n)
                /\ CurrentSource' = sources[((i - 1) % n) + 1] ]_vars

\* C7: read_chunk is only called and only returns in a worker thread: every
\* step that starts a read, advances a generator or sets eof is a worker
\* step, never a main-loop handler.
C7_ReadOnlyInWorker ==
    [][ (\/ generator' # generator
         \/ eof' # eof
         \/ \E s \in Ids : ReadsInProgress(s)' # ReadsInProgress(s)) =>
            \E w \in Threads : ThreadLoopTest(w) \/ ReadChunk(w) ]_vars

\* C7 witness: a worker has read a chunk and the main loop has merged it.
C7_Witness ==
    \E s \in Ids : generator[s] # <<>> /\ text[s] # <<>>

\* C8: no step of a worker thread changes any part of a view state (text,
\* cursor, line tokens, waiting flag).
C8_WorkerNeverWritesViewState ==
    [][ (\E w \in Threads : WorkerStep(w)) => UNCHANGED viewstate ]_vars

\* C9: whenever waiting_for_input_stream is set for a source it is eventually
\* cleared, under fair scheduling of the workers and the event loop.
C9_AwaitingEventuallyCleared ==
    \A s \in Ids :
        waiting_for_input_stream[s] ~> ~waiting_for_input_stream[s]

\* C10: waiting_for_input_stream stays set while the task of a source still
\* has reads or handoffs outstanding.
C10_AwaitingUntilLastMerge ==
    \A s \in Ids : TaskPending(s) => waiting_for_input_stream[s]

\* C11: while forward_forever is set, right after insert_text has merged a
\* chunk into a buffer the cursor of that buffer is at the end of its text.
C11_FollowCursorAtEnd ==
    [][ (InsertText /\ forward_forever) =>
            LET s == Head(callbacks).source
            IN  cursor_position'[s] = Len(text'[s]) ]_vars

\* C11 witness: in follow mode two chunks have been merged, the text is not
\* empty and the cursor is at its end.
C11_Witness ==
    \E s \in Ids :
        /\ forward_forever
        /\ Len(generator[s]) >= 2
        /\ text[s] = Flatten(generator[s])
        /\ cursor_position[s] = Len(text[s])

\* C12: after a read_chunk call has raised an I/O error, the source comes to
\* be at eof, the error text is the status message, and
\* waiting_for_input_stream is cleared.
C12_ReadErrorHandled ==
    \A s \in Ids :
        broken[s] ~> (/\ eof[s]
                      /\ message = "IOError"
                      /\ ~waiting_for_input_stream[s])

\* C13: open_file on a path whose FileSource construction raises IOError
\* sets the message to the error's text, leaves the source list and the
\* current index unchanged, and lets no exception escape.
C13_OpenFileFailure ==
    [][ OpenFile(TRUE) =>
            /\ message' = IOErrorText
            /\ sources' = sources
            /\ current_source_index' = current_source_index
            /\ raised' = "" ]_vars

\* C13 witness: open_file has failed on a registry of two sources.
C13_Witness ==
    /\ message = IOErrorText
    /\ Len(sources) = 2
    /\ raised = ""

\* C14: on n >= 1 sources focus_next_source sets the index to
\* (index + 1) mod n and focus_previous_source to (index - 1) mod n, and
\* neither changes the source list; after two adds the index is 1 and
\* focus_previous_source takes it to 0 and then back to 1.
C14_FocusWraps ==
    [][ /\ (Len(sources) >= 1 /\ FocusNextSource) =>
               /\ current_source_index' =
                      (current_source_index + 1) % Len(sources)
               /\ sources' = sources
        /\ (Len(sources) >= 1 /\ FocusPreviousSource) =>
               /\ current_source_index' =
                      (current_source_index - 1) % Len(sources)
               /\ sources' = sources
        /\ (sources = <<1, 2>> /\ FocusPreviousSource) =>
               /\ current_source_index = 1 => current_source_index' = 0
               /\ current_source_index = 0 => current_source_index' = 1
        /\ (created = 1 /\ AddSource) => current_source_index' = 1
        \* a step on n >= 2 sources that keeps the list is a focus step
        /\ (Len(sources) >= 2 /\ sources' = sources) =>
               current_source_index' \in
                   { (current_source_index + 1) % Len(sources),
                     (current_source_index - 1) % Len(sources) } ]_vars

\* C14 witness: after adding two sources the focus has been moved from
\* index 1 to index 0.
C14_Witness ==
    /\ created = 2
    /\ sources = <<1, 2>>
    /\ current_source_index = 0

\* C15: in colon mode, a key that is not a colon command (here "x", which
\* has no binding, and "g" and "G", bound in normal mode) returns to normal
\* mode and sets the message "No command.".
C15_UnknownColonKey ==
    [][ \A key \in {"x", "g", "G"} :
            (in_colon_mode /\ KeyPress(key)) =>
                /\ ~in_colon_mode'
                /\ message' = "No command." ]_vars

\* C16: in colon mode, after backspace, the quit key or a colon command
\* (n, p, d, e) has been dispatched, colon mode is off.
C16_ColonCommandLeavesColon ==
    [][ \A key \in {"backspace", "q", "Q", "n", "p", "d", "e"} :
            (in_colon_mode /\ KeyPress(key)) => ~in_colon_mode' ]_vars

\* The mark names that are not reserved.
CustomMarks == MarkNames \ {"^", "$"}

\* C17: for a mark name that is not reserved, setting the mark stores the
\* cursor and the vertical scroll of the current source, no other step (a
\* motion, a recall, a merge) changes the stored pair, and recalling the
\* mark sets the cursor and the vertical scroll to the stored pair.
C17_MarkRoundTrip ==
    [][ \A s \in Ids, name \in CustomMarks :
          /\ (CurrentSource = s /\ Mark(name)) =>
                 marks'[s][name] = <<cursor_position[s], vertical_scroll[s]>>
          /\ (name \in DOMAIN marks[s] /\ ~(CurrentSource = s /\ Mark(name)))
                 => /\ name \in DOMAIN marks'[s]
                    /\ marks'[s][name] = marks[s][name]
          /\ (CurrentSource = s /\ name \in DOMAIN marks[s] /\ GotoMark(name))
                 => /\ cursor_position'[s] = marks[s][name][1]
                    /\ vertical_scroll'[s] = marks[s][name][2] ]_vars

\* C17 witness: a custom mark and a reserved name were set at different
\* places of a two-line text, and the cursor and the scroll are those of the
\* custom mark.
C17_Witness ==
    \E s \in Ids, name \in CustomMarks :
        /\ name \in DOMAIN marks[s]
        /\ "^" \in DOMAIN marks[s]
        /\ marks[s][name] = <<2, 1>>
        /\ marks[s]["^"] = <<1, 0>>
        /\ cursor_position[s] = 2
        /\ vertical_scroll[s] = 1

HelpCount ==
    Cardinality({i \in 1..Len(sources) : sources[i] \in help_sources})

\* C20: display_help adds exactly one help source with add_source and sets
\* displaying_help when help is not displayed, and changes nothing when it
\* is; and the source list never holds more than one help source.
C20_AtMostOneHelpSource ==
    [][ /\ \A key \in Keys :
             (Handler(key) = "_help" /\ KeyPress(key)) =>
                 IF ~displaying_help
                 THEN /\ sources' = Append(sources, created + 1)
                      /\ current_source_index' = Len(sources)
                      /\ help_sources' = help_sources \cup {created + 1}
                      /\ displaying_help'
                 ELSE UNCHANGED <<sources, current_source_index,
                                  help_sources, displaying_help>>
        /\ HelpCount' <= 1 ]_vars

\* C21: add_source raises nothing, appends the source at the end of the
\* list and keeps the other entries, sets the index to the new last index,
\* and the SourceInfo it returns (that of the new source, now the current
\* one) is a fresh one.
C21_AddSourceAppends ==
    [][ AddSource =>
          LET s == created + 1 IN
          /\ raised' = ""
          /\ Len(sources') = Len(sources) + 1
          /\ \A i \in 1..Len(sources) : sources'[i] = sources[i]
          /\ sources'[Len(sources')] = s
          /\ current_source_index' = Len(sources') - 1
          /\ CurrentSource' = s
          /\ text'[s] = <<>>
          /\ cursor_position'[s] = 0
          /\ line_tokens'[s] = << <<>> >>
          /\ ~waiting_for_input_stream'[s] ]_vars

\* C21 witness: a source has been added while an earlier source had the
\* focus, and the new one is current.
C21_Witness ==
    /\ created = 3
    /\ sources = <<1, 2, 3>>
    /\ current_source_index = 2

\* C22: with an empty source list the current source is the placeholder,
\* and a render tick completes without raising and without starting a read.
C22_EmptyListRenderTick ==
    [][ (sources = <<>> /\ RenderTick) =>
          /\ CurrentSource = DummySource
          /\ raised' = ""
          /\ UNCHANGED <<threads, callbacks, srcstate, viewstate>> ]_vars

\* C23: a StringSource or FormattedTextSource is not at_end before the first
\* read_chunk; the first read_chunk returns the entire content (one fragment
\* per character, in order) and sets at_end; every later read_chunk returns
\* an empty list and at_end stays true.
C23_OneShotSources ==
    src.class \in {"StringSource", "FormattedTextSource"} =>
        /\ raised = ""
        /\ returned = <<>> => ~SourceEof(src)
        /\ returned # <<>> =>
              /\ SourceEof(src)
              /\ returned[1] =
                     IF src.class = "StringSource"
                     THEN [i \in 1..Len(src.content) |-> <<"", src.content[i]>>]
                     ELSE explode_text_fragments(src.content)
              /\ Flatten(<<returned[1]>>) =
                     IF src.class = "StringSource"
                     THEN src.content
                     ELSE fragment_list_to_text(src.content)
              /\ \A i \in 2..Len(returned) : returned[i] = <<>>

\* C23 witness: a StringSource of two characters has been read three times.
C23_Witness ==
    /\ src.class = "StringSource"
    /\ src.content = <<"a", NL>>
    /\ Len(returned) = 3
    /\ SourceEof(src)

\* C24: for a GeneratorSource over k chunks, the i-th read_chunk (i <= k)
\* returns the i-th chunk and leaves at_end false, the (k+1)-th returns an
\* empty list and sets at_end without raising, and at_end stays true in
\* every later read.
C24_GeneratorSourceReads ==
    src.class = "GeneratorSource" =>
        LET k == Len(src.content) IN
        /\ raised = ""
        /\ \A i \in 1..Len(returned) :
              returned[i] = IF i <= k
                            THEN explode_text_fragments(src.content[i])
                            ELSE <<>>
        /\ SourceEof(src) <=> Len(returned) > k

\* C24 witness: a generator of two chunks has been read four times.
C24_Witness ==
    /\ src.class = "GeneratorSource"
    /\ Len(src.content) = 2
    /\ src.content[1] # <<>>
    /\ Len(returned) = 4
    /\ SourceEof(src)

\* The view state of source s: text, line index, cursor and awaiting flag.
ViewStateOf(s) ==
    <<text[s], line_tokens[s], cursor_position[s],
      waiting_for_input_stream[s]>>

\* C25: when the source of a worker task is no longer the current source
\* (another one got the focus, or it was removed), the steps of that task
\* and the merge of the chunks it handed off leave the text, line index,
\* cursor and awaiting flag of every other source unchanged.
C25_StaleTaskTouchesOwnSourceOnly ==
    [][ /\ \A w \in Threads :
              (WorkerStep(w) /\ threads[w].source # CurrentSource) =>
                  \A s \in Ids \ {threads[w].source} :
                      ViewStateOf(s)' = ViewStateOf(s)
        /\ (InsertText /\ Head(callbacks).source # CurrentSource) =>
              \A s \in Ids \ {Head(callbacks).source} :
                  ViewStateOf(s)' = ViewStateOf(s) ]_vars

\* C25 witness: a removed source has had a chunk merged and has another
\* hand-off queued, while the current source awaits its own task.
C25_Witness ==
    /\ CurrentSource # DummySource
    /\ waiting_for_input_stream[CurrentSource]
    /\ text[CurrentSource] = <<>>
    /\ \E s \in 1..created :
          /\ ~InList(s, sources)
          /\ text[s] # <<>>
          /\ QueuedCallbacks(s) # {}

C27_NoDispatchTick ==
    [][ \A h \in 1..MaxWindowHeight, l \in 0..MaxChunks :
          LET s == CurrentSource
              slack == LineCount(text[s]) - l
          IN  ( /\ s # DummySource
                /\ AfterRender(h, l)
                /\ \/ eof[s]
                   \/ waiting_for_input_stream[s]
                   \/ (~forward_forever /\ slack >= 2 * h) )
              => UNCHANGED <<threads, viewstate, callbacks, srcstate>> ]_vars

\* C27 witness: follow mode is off, nothing is being loaded, and the text of
\* the current source has 2 * window_height lines below a viewport at the top:
\* the render tick of this state dispatches nothing.
C27_Witness ==
    /\ CurrentSource # DummySource
    /\ ~forward_forever
    /\ ~eof[CurrentSource]
    /\ ~waiting_for_input_stream[CurrentSource]
    /\ cursor_position[CurrentSource] = 0
    /\ LineCount(text[CurrentSource]) >= 2 * MaxWindowHeight
    /\ \A w \in Threads : threads[w].pc = "idle"
    /\ callbacks = <<>>
    /\ raised = ""

\* C28: every render tick that dispatches a worker task gives it the target
\* 2 * window_height - slack, and that target is at least 1, also when
\* follow mode forces the dispatch, so that the task performs at least one
\* read on a source that is not at_end.
C28_TargetAtLeastOne ==
    [][ \A h \in 1..MaxWindowHeight, l \in 0..MaxChunks, w \in Threads :
          ( /\ AfterRender(h, l)
            /\ threads[w].pc = "idle"
            /\ threads'[w].pc # "idle" )
          => /\ threads'[w].lines = 2 * h - (LineCount(text[CurrentSource]) - l)
             /\ threads'[w].lines >= 1
             /\ ~eof[threads'[w].source] ]_vars

\* C29: a worker task goes on calling read_chunk until its source is at_end
\* or the chunks it has read contain at least `target` newlines (its
\* counter `lines`, which starts at the target and is decreased once per
\* newline read, is no longer positive): it ends only then, and it issues no
\* read once either condition holds.
C29_ReadsUntilTargetOrEnd ==
    [][ \A w \in Threads :
          LET done == \/ eof[threads[w].source]
                      \/ threads[w].lines <= 0
          IN  /\ (threads[w].pc # "idle" /\ threads'[w].pc = "idle") => done
              /\ (threads[w].pc = "check" /\ threads'[w].pc = "reading")
                    => ~done ]_vars

\* C30: recalling mark "^" sets the cursor of the current source to 0 and
\* recalling mark "$" sets it to the length of its text, whatever was stored
\* under those names by the mark-set command.
C30_ReservedMarks ==
    [][ LET s == CurrentSource IN
        /\ (s # DummySource /\ GotoMark("^")) =>
              /\ cursor_position'[s] = 0
              /\ raised' = ""
        /\ (s # DummySource /\ GotoMark("$")) =>
              /\ cursor_position'[s] = Len(text[s])
              /\ raised' = "" ]_vars

\* C30 witness: positions other than start and end of file are stored under
\* both reserved names, and the cursor is at the end of a non-empty text.
C30_Witness ==
    /\ CurrentSource # DummySource
    /\ {"^", "$"} \subseteq DOMAIN marks[CurrentSource]
    /\ marks[CurrentSource]["^"][1] = 1
    /\ marks[CurrentSource]["$"][1] = 0
    /\ Len(text[CurrentSource]) = 2
    /\ cursor_position[CurrentSource] = 2

\* C31: colon mode is never active while help is displayed, and the colon
\* key leaves the mode unchanged when the help flag is set.
C31_NoColonWhileHelp ==
    [][ /\ (displaying_help' => ~in_colon_mode')
        /\ (displaying_help /\ KeyPress(":")) => UNCHANGED in_colon_mode ]_vars

\* C32: for every digit d, pressing the key d while the source window has
\* the focus appends exactly the digit d to the pending repeat count.
C32_DigitAppended ==
    [][ \A d \in Digits : DigitPress(d) => arg' = Append(arg, d) ]_vars

\* C33: in every state the view of every source in the list, also of one
\* added before a toggle, highlights search matches exactly when the pager's
\* highlight_search flag is set.
C33_ViewsAgreeWithFlag ==
    \A i \in 1..Len(sources) :
        window_highlight_search[sources[i]] = highlight_search

\* C34: accepting a path in the examine buffer always ends with the focus on
\* a source window and raises nothing; the file is added as the new current
\* source when it can be opened, and sources and index are unchanged when it
\* cannot.
C34_ExamineAcceptReturnsToNormal ==
    [][ ExamineAccept =>
          /\ focus' = "source"
          /\ raised' = ""
          /\ \/ UNCHANGED <<sources, current_source_index>>
             \/ /\ sources' = Append(sources, created + 1)
                /\ current_source_index' = Len(sources) ]_vars

\* C35: whenever the help flag goes from set to clear, the source removed
\* from the list is the help source, and no help source is in the list
\* afterwards.
C35_QuitHelpRemovesHelp ==
    [][ (displaying_help /\ ~displaying_help') =>
          /\ \E i \in 1..Len(sources) :
                /\ sources[i] \in help_sources
                /\ sources' = SubSeq(sources, 1, i - 1)
                                 \o SubSeq(sources, i + 1, Len(sources))
          /\ HelpCount' = 0 ]_vars

C37_MergeFrame ==
    [][ (InsertText /\ ~forward_forever) =>
          LET s == Head(callbacks).source IN
          /\ cursor_position'[s] = cursor_position[s]
          /\ marks'[s] = marks[s]
          /\ wrap_lines'[s] = wrap_lines[s]
          /\ UNCHANGED <<sources, current_source_index>> ]_vars

\* C37 witness: with follow mode off, two chunks have been merged into a
\* source that wraps lines and has a mark at a cursor away from the start,
\* and the cursor is still where the mark was set.
C37_Witness ==
    /\ ~forward_forever
    /\ \E s \in Ids :
          /\ Len(generator[s]) = 2
          /\ text[s] = Flatten(generator[s])
          /\ wrap_lines[s]
          /\ DOMAIN marks[s] # {}
          /\ \E n \in DOMAIN marks[s] :
                /\ marks[s][n][1] = cursor_position[s]
                /\ cursor_position[s] > 0
                /\ cursor_position[s] < Len(text[s])

RECURSIVE JoinLines(_)
\* "\n".join of the texts of the lines of a line index.
JoinLines(lt) ==
    IF Len(lt) = 0 THEN <<>>
    ELSE IF Len(lt) = 1 THEN [i \in 1..Len(lt[1]) |-> lt[1][i][2]]
    ELSE [i \in 1..Len(lt[1]) |-> lt[1][i][2]] \o <<NL>>
             \o JoinLines(Tail(lt))

\* C38: the line index of a source always has at least as many lines as its
\* text, and whenever no task of the source is running and no hand-off of it
\* is queued, the lines of the index joined with newlines are the text.
C38_LineIndexMatchesText ==
    \A s \in Ids :
        /\ Len(line_tokens[s]) >= LineCount(text[s])
        /\ (RunningThreads(s) = {} /\ QueuedCallbacks(s) = {}) =>
              JoinLines(line_tokens[s]) = text[s]

\* The loaded lines below the viewport of source s, for a window of
\* MaxWindowHeight lines that shows the line of the cursor.
Slack(s) == LineCount(text[s]) - CursorRow(text[s], cursor_position[s])

\* C39: under fair scheduling of workers, event loop and render ticks, a
\* finite source that stays current, with fewer than 2 * window_height
\* lines loaded below the viewport or with follow mode on, is eventually
\* at_end with its whole content in its text.
C39_EventuallyLoaded ==
    \A s \in Ids :
        (CurrentSource = s) ~>
            \/ eof[s] /\ text[s] = Flatten(generator[s])
            \/ CurrentSource # s
            \/ ~forward_forever /\ Slack(s) >= 2 * MaxWindowHeight

\* C40: the status message is reset before each key press is handled: after
\* a key press the message is non-empty only if the handler of that key
\* press set it, and then it is that handler's message.
C40_MessageResetOnKeyPress ==
    [][ \A key \in Keys :
          KeyPress(key) =>
              \/ message' = ""
              \/ /\ Handler(key) = "_any"
                 /\ message' = "No command."
              \/ /\ Handler(key) \in {"_remove_source", "_quit"}
                 /\ Len(sources) <= 1
                 /\ message' = "Can't remove the last buffer." ]_vars

\* C40 witness: a message set by a handler is displayed, colon mode is on
\* and there are two sources, so that no key the user can press next sets
\* this message again.
C40_Witness ==
    /\ message = "Can't remove the last buffer."
    /\ ~app_exited
    /\ in_colon_mode
    /\ Len(sources) = 2

====
